---- MODULE Spec2Model ----
(***************************************************************************)
(* Model of the DiffGrad optimizer (src/optimizer/DiffGrad.py).            *)
(*                                                                         *)
(* Tensors are sequences of rows; a row is one number.  Numbers are        *)
(* fixed-point integers with ONE units per 1.0; products and quotients     *)
(* round towards minus infinity, where floating point rounds to nearest.   *)
(* The hyperparameters are constructor arguments; the model instantiates   *)
(* them with dyadic values, so that the moving averages of lines 130-152   *)
(* are computed without any rounding for the step counts explored.         *)
(* Row indices are 1-based here and 0-based in the code.                   *)
(***************************************************************************)
EXTENDS Integers, Sequences, FiniteSets, TLC

\* ------------------------------------------------------------- bounds
\* Total number of update_step calls explored.
MaxSteps == 2

\* Gradient values a row may receive (whole numbers, before scaling).
GradInts == {-1, 0}

\* ------------------------------------------------------- number model
ONE == 64 * 64

NaN == 0 - (ONE * ONE * 64)
PInf == ONE * ONE * 64
NInf == 0 - (ONE * ONE * 64) - 1

Finite(x) == x # NaN /\ x # PInf /\ x # NInf

Mul(a, b) == (a * b) \div ONE

Div(a, b) == (a * ONE) \div b

Abs(x) == IF x < 0 THEN 0 - x ELSE x

Square(x) == Mul(x, x)

Maximum(a, b) == IF a >= b THEN a ELSE b

RECURSIVE SqrtSearch(_, _, _)
SqrtSearch(y, lo, hi) ==
    IF lo = hi THEN lo
    ELSE LET mid == (lo + hi + 1) \div 2
         IN  IF mid * mid <= y THEN SqrtSearch(y, mid, hi)
                               ELSE SqrtSearch(y, lo, mid - 1)

\* tf.sqrt on a non-negative fixed-point number.
Sqrt(x) == SqrtSearch(x * ONE, 0, 46340)

\* exp(-1) in fixed point.
ExpNegOne == (ONE * 36788) \div 100000

\* tf.exp(-x) for x >= 0: exp(-1) per whole unit, a cubic Taylor polynomial
\* for the fraction.
RECURSIVE ExpNeg(_)
ExpNeg(x) ==
    IF x >= ONE THEN Mul(ExpNegOne, ExpNeg(x - ONE))
    ELSE ONE - x + (Mul(x, x) \div 2) - (Mul(Mul(x, x), x) \div 6)

\* tf.pow(b, n) for a whole exponent n >= 0.
RECURSIVE Pow(_, _)
Pow(b, n) == IF n = 0 THEN ONE ELSE Mul(b, Pow(b, n - 1))

\* a / b of floating point, with its results for a zero divisor.
FloatDiv(a, b) ==
    IF b # 0 THEN Div(a, b)
    ELSE IF a = 0 THEN NaN
    ELSE IF a > 0 THEN PInf ELSE NInf

\* x - u of floating point on possibly non-finite operands.
FloatSub(x, u) ==
    IF x = NaN \/ u = NaN THEN NaN
    ELSE IF Finite(x) /\ Finite(u) THEN x - u
    ELSE IF Finite(x) THEN (IF u = PInf THEN NInf ELSE PInf)
    ELSE IF Finite(u) THEN x
    ELSE IF x = u THEN NaN ELSE x

\* ----------------------------------------------------- hyperparameters
learning_rate == ONE \div 8
weight_decay == ONE \div 4
beta_1 == ONE \div 2
beta_2 == (3 * ONE) \div 4
epsilon == ONE \div 64

\* -------------------------------------------------- the host's variables
\* Two model variables, known by identity 1 and 2: "dw" with three rows and
\* "db" with one row.
VarIds == {1, 2}

VarName == << <<"d", "w">>, <<"d", "b">> >>

VarRows == << 3, 1 >>

InitialValue == ONE

\* The lists build() may be given.
VarLists == { <<1>>, <<2, 1>> }

\* The arguments (var_list, var_names) exclude_from_weight_decay() may be
\* given: nothing, variable 1 by identity, every name holding a "b".
ExcludeArgs == { << <<>>, <<>> >>, << <<1>>, <<>> >>, << <<>>, << <<"b">> >> >> }

Range(s) == { s[i] : i \in DOMAIN s }

Zeros(n) == [i \in 1..n |-> 0]

\* ---------------------------------------------------------------- state
VARIABLES
    amsgrad,          \* self.amsgrad
    built,            \* self._built
    index_dict,       \* self._index_dict: variable identity -> slot
    momentums,        \* self._momentums: one tensor per slot
    velocities,       \* self._velocities
    prev_gradients,   \* self._prev_gradients
    velocity_hats,    \* self._velocity_hats (no slots unless amsgrad)
    exclude_vars,     \* self._exclude_from_weight_decay
    exclude_names,    \* self._exclude_from_weight_decay_names
    var_value,        \* the model variables' tensors, by identity
    iterations,       \* self.iterations
    updated,          \* variables already updated in this iteration
    dfc,              \* the friction coefficient the last update_step computed
    hist,             \* the update_step calls so far, oldest first
    call              \* the last call: its name and whether it raised

vars == << amsgrad, built, index_dict, momentums, velocities, prev_gradients,
           velocity_hats, exclude_vars, exclude_names, var_value, iterations,
           updated, dfc, hist, call >>

\* The optimizer's own tensors and bookkeeping.
slots == << built, index_dict, momentums, velocities, prev_gradients,
            velocity_hats >>

Init ==
    /\ amsgrad \in BOOLEAN
    /\ built = FALSE
    /\ index_dict = << >>
    /\ momentums = << >>
    /\ velocities = << >>
    /\ prev_gradients = << >>
    /\ velocity_hats = << >>
    /\ exclude_vars = << >>
    /\ exclude_names = << >>
    /\ var_value = [x \in VarIds |-> [i \in 1..VarRows[x] |-> InitialValue]]
    /\ iterations = 0
    /\ updated = {}
    /\ dfc = << >>
    /\ hist = << >>
    /\ call = [op |-> "init", raised |-> FALSE]

\* ---------------------------------------------------------------- build
\* add_variable_from_reference for every variable of the list, in order.
AddVariables(var_list) == [k \in 1..Len(var_list) |-> Zeros(VarRows[var_list[k]])]

\* build() without the check of self._built.
BuildUnguarded(var_list) ==
    /\ call' = [op |-> "build", raised |-> FALSE]
    /\ built' = TRUE
    /\ index_dict' = [x \in Range(var_list) |->
                        CHOOSE k \in 1..Len(var_list) : var_list[k] = x]
    /\ momentums' = AddVariables(var_list)
    /\ velocities' = AddVariables(var_list)
    /\ prev_gradients' = AddVariables(var_list)
    /\ velocity_hats' = IF amsgrad THEN AddVariables(var_list) ELSE << >>
    /\ UNCHANGED << amsgrad, exclude_vars, exclude_names, var_value, iterations,
                    updated, dfc, hist >>

\* super().build(var_list) of line 64 is the host's Optimizer.build, which
\* fills self._index_dict from var_list unless self._built is already set;
\* the rest is lines 65-94.
Build(var_list) ==
    /\ call' = [op |-> "build", raised |-> FALSE]
    /\ IF built
       THEN UNCHANGED slots
       ELSE /\ built' = TRUE
            /\ index_dict' = [x \in Range(var_list) |->
                                CHOOSE k \in 1..Len(var_list) : var_list[k] = x]
            /\ momentums' = AddVariables(var_list)
            /\ velocities' = AddVariables(var_list)
            /\ prev_gradients' = AddVariables(var_list)
            /\ velocity_hats' = IF amsgrad THEN AddVariables(var_list) ELSE << >>
    /\ UNCHANGED << amsgrad, exclude_vars, exclude_names, var_value, iterations,
                    updated, dfc, hist >>

\* ------------------------------------------------- weight-decay exclusion
\* exclude_from_weight_decay() without the check of self._built.
ExcludeUnguarded(var_list, var_names) ==
    /\ call' = [op |-> "exclude", raised |-> FALSE]
    /\ exclude_vars' = var_list
    /\ exclude_names' = var_names
    /\ UNCHANGED << amsgrad, slots, var_value, iterations, updated, dfc, hist >>

ExcludeFromWeightDecay(var_list, var_names) ==
    /\ IF built
       THEN /\ call' = [op |-> "exclude", raised |-> TRUE]
            /\ UNCHANGED << exclude_vars, exclude_names >>
       ELSE /\ call' = [op |-> "exclude", raised |-> FALSE]
            /\ exclude_vars' = var_list
            /\ exclude_names' = var_names
    /\ UNCHANGED << amsgrad, slots, var_value, iterations, updated, dfc, hist >>

\* re.search(pattern, name) for a pattern without metacharacters.
Search(pattern, name) ==
    \E i \in 0..(Len(name) - Len(pattern)) :
        SubSeq(name, i + 1, i + Len(pattern)) = pattern

\* The decision with the names compared whole instead of searched.
UseWeightDecayFullMatch(ex_vars, ex_names, x) ==
    /\ x \notin Range(ex_vars)
    /\ \A j \in DOMAIN ex_names : ex_names[j] # VarName[x]

UseWeightDecayOf(ex_vars, ex_names, x) ==
    /\ x \notin Range(ex_vars)
    /\ \A j \in DOMAIN ex_names : ~Search(ex_names[j], VarName[x])

use_weight_decay(x) == UseWeightDecayOf(exclude_vars, exclude_names, x)

\* ----------------------------------------------------------- update_step
\* alpha = lr * sqrt(1 - beta_2^local_step) / (1 - beta_1^local_step)
Alpha(iter) ==
    LET local_step == iter + 1
        beta_1_power == Pow(beta_1, local_step)
        beta_2_power == Pow(beta_2, local_step)
    IN  Div(Mul(learning_rate, Sqrt(ONE - beta_2_power)), ONE - beta_1_power)

\* variable.assign_sub(variable * wd * lr)
WeightDecayed(x) ==
    [i \in DOMAIN x |->
        IF Finite(x[i]) THEN x[i] - Mul(Mul(x[i], weight_decay), learning_rate)
                        ELSE NaN]

AfterWeightDecay(x, tensor) ==
    IF use_weight_decay(x) THEN WeightDecayed(tensor) ELSE tensor

\* m.assign_add((gradient - m) * (1 - beta_1))
DenseMomentum(m, g) ==
    [i \in DOMAIN m |-> m[i] + Mul(g[i] - m[i], ONE - beta_1)]

\* The velocity average fed the gradient instead of its square.
DenseVelocityNoSquare(v, g) ==
    [i \in DOMAIN v |-> v[i] + Mul(g[i] - v[i], ONE - beta_2) + epsilon]

\* v.assign_add((square(gradient) - v) * (1 - beta_2) + epsilon)
DenseVelocity(v, g) ==
    [i \in DOMAIN v |-> v[i] + Mul(Square(g[i]) - v[i], ONE - beta_2) + epsilon]

\* The friction coefficient without the absolute value.
DenseDfcNoAbs(p, g) ==
    [i \in DOMAIN p |-> ONE + ExpNeg(p[i] - g[i])]

\* dfc = 1 + exp(-abs(p - gradient))
DenseDfc(p, g) ==
    [i \in DOMAIN p |-> ONE + ExpNeg(Abs(p[i] - g[i]))]

\* The positions of an index list that name row i.
PositionsOf(indices, i) == { j \in DOMAIN indices : indices[j] = i }

\* t.scatter_add(IndexedSlices(updates, indices)), the indices being distinct.
ScatterAdd(t, indices, updates) ==
    [i \in DOMAIN t |->
        IF PositionsOf(indices, i) = {} THEN t[i]
        ELSE t[i] + updates[CHOOSE j \in PositionsOf(indices, i) : TRUE]]

\* t.scatter_update(IndexedSlices(updates, indices)), the indices being distinct.
ScatterUpdate(t, indices, updates) ==
    [i \in DOMAIN t |->
        IF PositionsOf(indices, i) = {} THEN t[i]
        ELSE updates[CHOOSE j \in PositionsOf(indices, i) : TRUE]]

\* m.assign_add(-m * (1 - beta_1)); m.scatter_add(values * (1 - beta_1))
SparseMomentum(m, indices, values) ==
    ScatterAdd([i \in DOMAIN m |-> m[i] + Mul(0 - m[i], ONE - beta_1)],
               indices,
               [j \in DOMAIN values |-> Mul(values[j], ONE - beta_1)])

\* v.assign_add(-v * (1 - beta_2));
\* v.scatter_add(square(values) * (1 - beta_2) + epsilon)
SparseVelocity(v, indices, values) ==
    ScatterAdd([i \in DOMAIN v |-> v[i] + Mul(0 - v[i], ONE - beta_2)],
               indices,
               [j \in DOMAIN values |->
                   Mul(Square(values[j]), ONE - beta_2) + epsilon])

\* Whether p - gradient.values broadcasts: the leading dimensions are equal
\* or one of them is 1.
Broadcasts(p, values) ==
    Len(values) = Len(p) \/ Len(values) = 1 \/ Len(p) = 1

\* dfc = 1 + exp(-abs(p - gradient.values)): the whole of p against the
\* values by position, a single value row being broadcast to every row.
SparseDfc(p, values) ==
    [i \in DOMAIN p |->
        ONE + ExpNeg(Abs(p[i] - (IF Len(values) = 1 THEN values[1]
                                                    ELSE values[i])))]

\* v_hat overwritten by v instead of the maximum of the two.
MaxVelocityHatOverwrite(v_hat, v) == v

\* v_hat.assign(maximum(v_hat, v))
MaxVelocityHat(v_hat, v) ==
    [i \in DOMAIN v |-> Maximum(v_hat[i], v[i])]

\* variable.assign_sub((m * alpha) / (dfc * sqrt(v)))
FinalUpdate(x, m, alpha, d, v) ==
    [i \in DOMAIN x |->
        FloatSub(x[i], FloatDiv(Mul(m[i], alpha), Mul(d[i], Sqrt(v[i]))))]

\* The amsgrad branch and the final assign_sub, common to both paths; s is
\* the variable's slot, m and v its new momentum and velocity.
Finish(x, s, m, v, d) ==
    LET v_hat == MaxVelocityHat(velocity_hats[s], v)
        v_used == IF amsgrad THEN v_hat ELSE v
    IN  /\ velocity_hats' = IF amsgrad
                            THEN [velocity_hats EXCEPT ![s] = v_hat]
                            ELSE velocity_hats
        /\ var_value' = [var_value EXCEPT ![x] =
               FinalUpdate(AfterWeightDecay(x, var_value[x]), m,
                           Alpha(iterations), d, v_used)]

\* The host calls update_step once per variable and iteration, and only for
\* variables that build() was given.
MayUpdate(x) ==
    /\ built
    /\ x \in DOMAIN index_dict
    /\ x \notin updated
    /\ Len(hist) < MaxSteps

\* The dense path with p.assign(gradient) moved before the computation of dfc.
UpdateStepDenseWriteFirst(x, gradient) ==
    /\ MayUpdate(x)
    /\ LET s == index_dict[x]
           m == DenseMomentum(momentums[s], gradient)
           v == DenseVelocity(velocities[s], gradient)
           d == DenseDfc(gradient, gradient)
       IN  /\ momentums' = [momentums EXCEPT ![s] = m]
           /\ velocities' = [velocities EXCEPT ![s] = v]
           /\ dfc' = d
           /\ prev_gradients' = [prev_gradients EXCEPT ![s] = gradient]
           /\ Finish(x, s, m, v, d)
    /\ updated' = updated \cup {x}
    /\ hist' = Append(hist, [var |-> x, sparse |-> FALSE,
                             indices |-> [i \in 1..VarRows[x] |-> i],
                             values |-> gradient, raised |-> FALSE])
    /\ call' = [op |-> "update_step", raised |-> FALSE]
    /\ UNCHANGED << amsgrad, built, index_dict, exclude_vars, exclude_names,
                    iterations >>

UpdateStepDense(x, gradient) ==
    /\ MayUpdate(x)
    /\ LET s == index_dict[x]
           m == DenseMomentum(momentums[s], gradient)
           v == DenseVelocity(velocities[s], gradient)
           d == DenseDfc(prev_gradients[s], gradient)
       IN  /\ momentums' = [momentums EXCEPT ![s] = m]
           /\ velocities' = [velocities EXCEPT ![s] = v]
           /\ dfc' = d
           /\ prev_gradients' = [prev_gradients EXCEPT ![s] = gradient]
           /\ Finish(x, s, m, v, d)
    /\ updated' = updated \cup {x}
    /\ hist' = Append(hist, [var |-> x, sparse |-> FALSE,
                             indices |-> [i \in 1..VarRows[x] |-> i],
                             values |-> gradient, raised |-> FALSE])
    /\ call' = [op |-> "update_step", raised |-> FALSE]
    /\ UNCHANGED << amsgrad, built, index_dict, exclude_vars, exclude_names,
                    iterations >>

\* eager: the statements run one by one, so those before the failing
\* subtraction of line 143 have taken effect when it raises; otherwise the
\* step is traced as a graph first and the shape error stops the trace.
UpdateStepSparse(x, indices, values, eager) ==
    /\ MayUpdate(x)
    /\ LET s == index_dict[x]
           m == SparseMomentum(momentums[s], indices, values)
           v == SparseVelocity(velocities[s], indices, values)
           p == prev_gradients[s]
           d == SparseDfc(p, values)
       IN  IF Broadcasts(p, values)
           THEN /\ momentums' = [momentums EXCEPT ![s] = m]
                /\ velocities' = [velocities EXCEPT ![s] = v]
                /\ dfc' = d
                /\ prev_gradients' = [prev_gradients EXCEPT ![s] =
                                         ScatterUpdate(p, indices, values)]
                /\ Finish(x, s, m, v, d)
                /\ call' = [op |-> "update_step", raised |-> FALSE]
           ELSE /\ IF eager
                   THEN /\ momentums' = [momentums EXCEPT ![s] = m]
                        /\ velocities' = [velocities EXCEPT ![s] = v]
                        /\ var_value' = [var_value EXCEPT ![x] =
                                            AfterWeightDecay(x, var_value[x])]
                   ELSE UNCHANGED << momentums, velocities, var_value >>
                /\ UNCHANGED << dfc, prev_gradients, velocity_hats >>
                /\ call' = [op |-> "update_step", raised |-> TRUE]
    /\ updated' = updated \cup {x}
    /\ hist' = Append(hist, [var |-> x, sparse |-> TRUE, indices |-> indices,
                             values |-> values,
                             raised |-> ~Broadcasts(prev_gradients[index_dict[x]],
                                                    values)])
    /\ UNCHANGED << amsgrad, built, index_dict, exclude_vars, exclude_names,
                    iterations >>

\* The host's iterations.assign_add(1) after a batch of update_step calls.
NextIteration ==
    /\ updated # {}
    /\ iterations' = iterations + 1
    /\ updated' = {}
    /\ call' = [op |-> "iterations", raised |-> FALSE]
    /\ UNCHANGED << amsgrad, slots, exclude_vars, exclude_names, var_value,
                    dfc, hist >>

\* ------------------------------------------------------------ the inputs
GradVals == { g * ONE : g \in GradInts }

\* Dense gradients of a variable: one value per row.
DenseGrads(x) == [1..VarRows[x] -> GradVals]

\* Index lists of a sparse gradient: distinct rows, in any order (the host
\* sums duplicate indices before update_step sees them).
IndexLists(x) ==
    UNION { { l \in [1..k -> 1..VarRows[x]] :
                \A a, b \in 1..k : l[a] = l[b] => a = b } : k \in 1..VarRows[x] }

Next ==
    \/ \E l \in VarLists : Build(l)
    \/ \E a \in ExcludeArgs : ExcludeFromWeightDecay(a[1], a[2])
    \/ \E x \in VarIds : \E g \in DenseGrads(x) : UpdateStepDense(x, g)
    \/ \E x \in VarIds : \E l \in IndexLists(x) :
          \E v \in [DOMAIN l -> GradVals], eager \in BOOLEAN :
             UpdateStepSparse(x, l, v, eager)
    \/ NextIteration

Spec == Init /\ [][Next]_vars

\* The same engine under a host whose sparse gradients touch a single row.
NextSingleRow ==
    \/ \E l \in VarLists : Build(l)
    \/ \E a \in ExcludeArgs : ExcludeFromWeightDecay(a[1], a[2])
    \/ \E x \in VarIds : \E g \in DenseGrads(x) : UpdateStepDense(x, g)
    \/ \E x \in VarIds : \E l \in { k \in IndexLists(x) : Len(k) = 1 } :
          \E v \in [DOMAIN l -> GradVals], eager \in BOOLEAN :
             UpdateStepSparse(x, l, v, eager)
    \/ NextIteration

SpecSingleRow == Init /\ [][NextSingleRow]_vars

\* ------------------------------------------------------------ properties
\* A step in which update_step was called, and that call.
Stepped == Len(hist') = Len(hist) + 1

LastStep == hist'[Len(hist')]

\* C1: once build() has run, a later build(), whatever list it is given,
\* raises nothing, allocates no tensor and leaves the index and every
\* momentum, velocity, prev_gradient and velocity_hat tensor as they were.
C1_BuildIsNoOpOnceBuilt ==
    [][(built /\ call'.op = "build") =>
          /\ ~call'.raised
          /\ UNCHANGED slots
          /\ UNCHANGED << var_value, exclude_vars, exclude_names, iterations >>
      ]_vars

\* build() was called on an engine built for variable 1 alone whose tensors
\* an update_step had made non-zero.
C1_Witness ==
    /\ call.op = "build"
    /\ Len(hist) > 0
    /\ DOMAIN index_dict = {1}
    /\ \E i \in 1..VarRows[1] : momentums[1][i] # 0 /\ velocities[1][i] # 0

\* C2: exclude_from_weight_decay() succeeds only before build(); after it
\* the call raises and leaves both exclusion lists, the weight-decay
\* decision of every variable and all other state unchanged.
C2_ExcludeOnlyBeforeBuild ==
    [][(call'.op = "exclude") =>
          IF built
          THEN /\ call'.raised
               /\ UNCHANGED << exclude_vars, exclude_names, slots, var_value,
                               iterations, amsgrad >>
               /\ \A x \in VarIds :
                     UseWeightDecayOf(exclude_vars', exclude_names', x)
                        = UseWeightDecayOf(exclude_vars, exclude_names, x)
          ELSE ~call'.raised
      ]_vars

\* A call after build() raised, on an engine with a configured exclusion.
C2_Witness ==
    /\ call.op = "exclude"
    /\ call.raised
    /\ built
    /\ exclude_names # << >>

\* C5: with amsgrad, no element of velocity_hat decreases in any step.
C5_VelocityHatNeverDecreases ==
    [][(amsgrad /\ built) =>
          \A s \in DOMAIN velocity_hats : \A i \in DOMAIN velocity_hats[s] :
             velocity_hats'[s][i] >= velocity_hats[s][i]
      ]_vars

\* After two steps the velocity of some element has fallen below its
\* earlier maximum, which velocity_hat still holds.
C5_Witness ==
    /\ amsgrad
    /\ Len(hist) = 2
    /\ \E s \in DOMAIN velocity_hats : \E i \in DOMAIN velocity_hats[s] :
          velocities[s][i] < velocity_hats[s][i]

\* C7, as stated: every element of dfc lies in [1, 2).
C7_DfcBelowTwo ==
    \A i \in DOMAIN dfc : ONE <= dfc[i] /\ dfc[i] < 2 * ONE

\* C7, amended: every element of dfc lies in [1, 2]; the value 2 is taken
\* where the gradient equals the previous gradient.
C7_DfcWithinOneAndTwo ==
    \A i \in DOMAIN dfc : ONE <= dfc[i] /\ dfc[i] <= 2 * ONE

\* A second step on a variable gave one row the gradient it had before
\* (dfc = 2) and another row a different one (dfc < 2).
C7_Witness ==
    /\ Len(hist) = 2
    /\ hist[1].var = hist[2].var
    /\ ~hist[2].raised
    /\ \E i \in DOMAIN dfc : dfc[i] = 2 * ONE
    /\ \E i \in DOMAIN dfc : dfc[i] < 2 * ONE

\* The gradient of a step, as the value it supplies for row i.
ValueForRow(h, i) == h.values[CHOOSE j \in DOMAIN h.indices : h.indices[j] = i]

Touches(h, i) == \E j \in DOMAIN h.indices : h.indices[j] = i

\* The exemption as the documentation words it: the identity is listed, or
\* some pattern occurs somewhere in the name.
OccursIn(pattern, name) ==
    \E a, b \in 0..Len(name) :
        /\ a + Len(pattern) + b = Len(name)
        /\ \A k \in 1..Len(pattern) : name[a + k] = pattern[k]

Exempt(x) ==
    \/ \E k \in DOMAIN exclude_vars : exclude_vars[k] = x
    \/ \E k \in DOMAIN exclude_names : OccursIn(exclude_names[k], VarName[x])

\* parameter - parameter * weight_decay * learning_rate, element by element.
Decayed(t) ==
    [i \in DOMAIN t |-> t[i] - Mul(Mul(t[i], weight_decay), learning_rate)]

\* C6: in the first step after build(), a dense one, an exempt variable
\* receives no decay term (with a zero gradient its value is unchanged) and
\* a variable that is not exempt is decayed before the gradient term is
\* subtracted (with a zero gradient its value is the decayed one, which
\* differs); a variable is exempt exactly when its identity is listed or a
\* pattern occurs in its name.
C6_WeightDecayExemption ==
    [][(Stepped /\ hist = << >> /\ ~LastStep.sparse) =>
          LET x == LastStep.var
              s == index_dict[x]
              base == IF Exempt(x) THEN var_value[x] ELSE Decayed(var_value[x])
              used == IF amsgrad THEN velocity_hats'[s] ELSE velocities'[s]
          IN  /\ var_value'[x] =
                    FinalUpdate(base, momentums'[s], Alpha(iterations), dfc', used)
              /\ (\A i \in DOMAIN LastStep.values : LastStep.values[i] = 0) =>
                    /\ var_value'[x] = base
                    /\ (var_value'[x] = var_value[x]) <=> Exempt(x)
      ]_vars

\* Variable 2, "db", exempt only through the pattern "b", kept its value in
\* a first dense step with a zero gradient.
C6_Witness ==
    /\ Len(hist) = 1
    /\ hist[1].var = 2
    /\ ~hist[1].sparse
    /\ hist[1].values = << 0 >>
    /\ exclude_names = << << "b" >> >>
    /\ exclude_vars = << >>
    /\ var_value[2] = << InitialValue >>

\* The friction coefficient of a step from the prev_gradient tensor p.
FrictionFrom(p, h) ==
    [i \in DOMAIN p |->
        ONE + ExpNeg(Abs(p[i] - (IF Len(h.values) = 1 THEN h.values[1]
                                                      ELSE h.values[i])))]

\* C8: the friction coefficient of every update_step that completes is
\* computed from prev_gradient as it was when the step began, and a dense
\* step leaves prev_gradient equal to its gradient.
C8_DfcReadsPrevGradientFirst ==
    [][(Stepped /\ ~LastStep.raised) =>
          LET s == index_dict[LastStep.var]
          IN  /\ dfc' = FrictionFrom(prev_gradients[s], LastStep)
              /\ ~LastStep.sparse => prev_gradients'[s] = LastStep.values
      ]_vars

\* A second dense step changed row 1's gradient from -1 to 0: dfc there is
\* 1 + exp(-1), from the old value, where the new value would give 2.
C8_Witness ==
    /\ Len(hist) = 2
    /\ hist[1].var = 1 /\ hist[2].var = 1
    /\ ~hist[1].sparse /\ ~hist[2].sparse
    /\ hist[1].values[1] = 0 - ONE
    /\ hist[2].values[1] = 0
    /\ dfc[1] = ONE + ExpNeg(ONE)
    /\ prev_gradients[index_dict[1]][1] = 0

\* x_t = x_(t-1) + (new_t - x_(t-1)) * (1 - decay) + extra, from x_0 = 0,
\* over the sequence news.
RECURSIVE Recurrence(_, _, _)
Recurrence(news, decay, extra) ==
    IF news = << >> THEN 0
    ELSE LET prev == Recurrence(SubSeq(news, 1, Len(news) - 1), decay, extra)
         IN  prev + Mul(news[Len(news)] - prev, ONE - decay) + extra

\* The steps taken on variable x, oldest first.
StepsOn(x) == SelectSeq(hist, LAMBDA h : h.var = x)

AllDense(hs) == \A k \in DOMAIN hs : ~hs[k].sparse

GradientsOfRow(hs, i) == [k \in DOMAIN hs |-> hs[k].values[i]]

SquaresOfRow(hs, i) == [k \in DOMAIN hs |-> Square(hs[k].values[i])]

\* C9, as stated: after dense steps only, momentum and velocity are the
\* moving averages of the gradients and of their squares.
C9_MomentsArePlainAverages ==
    \A x \in DOMAIN index_dict :
        AllDense(StepsOn(x)) =>
            \A i \in 1..VarRows[x] :
                /\ momentums[index_dict[x]][i] =
                      Recurrence(GradientsOfRow(StepsOn(x), i), beta_1, 0)
                /\ velocities[index_dict[x]][i] =
                      Recurrence(SquaresOfRow(StepsOn(x), i), beta_2, 0)

\* C9, amended: momentum is the moving average of the gradients; velocity
\* follows the same recurrence with epsilon added at every step.
C9_MomentsFollowRecurrence ==
    \A x \in DOMAIN index_dict :
        AllDense(StepsOn(x)) =>
            \A i \in 1..VarRows[x] :
                /\ momentums[index_dict[x]][i] =
                      Recurrence(GradientsOfRow(StepsOn(x), i), beta_1, 0)
                /\ velocities[index_dict[x]][i] =
                      Recurrence(SquaresOfRow(StepsOn(x), i), beta_2, epsilon)

\* Two dense steps on variable 1, both with a non-zero gradient in row 1.
C9_Witness ==
    /\ Len(hist) = 2
    /\ hist[1].var = 1 /\ hist[2].var = 1
    /\ AllDense(hist)
    /\ hist[1].values[1] # 0 /\ hist[2].values[1] # 0
    /\ hist[1].values[2] # hist[2].values[2]

\* The dense gradient with the same value in every row as a sparse step
\* whose index list covers every row.
Densified(h) == [i \in 1..VarRows[h.var] |-> ValueForRow(h, i)]

Covers(h) == \A i \in 1..VarRows[h.var] : Touches(h, i)

\* C3: a sparse update_step whose indices cover every row, in whatever
\* order the list names them, yields the momentum, velocity, prev_gradient,
\* velocity_hat and variable value the dense path yields from the same
\* state for the same row values.
C3_CoveringSparseEqualsDense ==
    [][(Stepped /\ LastStep.sparse /\ Covers(LastStep)) =>
          LET x == LastStep.var
              s == index_dict[x]
              g == Densified(LastStep)
              m == DenseMomentum(momentums[s], g)
              v == DenseVelocity(velocities[s], g)
              d == DenseDfc(prev_gradients[s], g)
              v_hat == IF amsgrad THEN MaxVelocityHat(velocity_hats[s], v)
                                  ELSE v
          IN  /\ ~LastStep.raised
              /\ momentums'[s] = m
              /\ velocities'[s] = v
              /\ prev_gradients'[s] = g
              /\ amsgrad => velocity_hats'[s] = v_hat
              /\ var_value'[x] =
                    FinalUpdate(AfterWeightDecay(x, var_value[x]), m,
                                Alpha(iterations), d, v_hat)
      ]_vars

\* The value the latest of the steps hs that touched row i supplied for it;
\* zero when none did.
RECURSIVE LastSeen(_, _)
LastSeen(hs, i) ==
    IF hs = << >> THEN 0
    ELSE IF Touches(hs[Len(hs)], i) THEN ValueForRow(hs[Len(hs)], i)
    ELSE LastSeen(SubSeq(hs, 1, Len(hs) - 1), i)

AllSparse(hs) == \A k \in DOMAIN hs : hs[k].sparse

\* C4: after sparse update_step calls only, every row of prev_gradient
\* holds the value of the latest step that touched the row, and zero when
\* no step has touched it.
C4_PrevGradientIsLastSeen ==
    \A x \in DOMAIN index_dict :
        AllSparse(StepsOn(x)) =>
            \A i \in 1..VarRows[x] :
                prev_gradients[index_dict[x]][i] = LastSeen(StepsOn(x), i)

\* C10: a sparse update_step, whatever rows it touches and in whatever
\* order, computes for every touched row i the friction coefficient
\* 1 + exp(-|prev_gradient[i] - value supplied for row i|).
C10_DfcPairsValueWithItsRow ==
    [][(Stepped /\ LastStep.sparse) =>
          /\ ~LastStep.raised
          /\ \A j \in DOMAIN LastStep.indices :
                LET i == LastStep.indices[j]
                    p == prev_gradients[index_dict[LastStep.var]]
                IN  /\ i \in DOMAIN dfc'
                    /\ dfc'[i] = ONE + ExpNeg(Abs(p[i] - LastStep.values[j]))
      ]_vars

====
